---- MODULE Spec2Model ----
(***************************************************************************)
(* fms::date - calendar arithmetic for financial instruments.              *)
(*                                                                         *)
(* Three machines are modelled.                                            *)
(*   - The schedule iterators: the month-step `periodic` of                *)
(*     src/unnamed/part_002 (fields of a year_month_day) and the           *)
(*     time-point `periodic_iterable` of src/fms_date.h.                   *)
(*   - The roll adjuster `adjust`, in the version of src/fms_date.h and    *)
(*     in the version of src/unnamed/part_002 (src/unnamed/part_003 holds  *)
(*     the same text), run one invocation of the function body per step.   *)
(*   - The functions of one call: the day count fractions of namespace     *)
(*     dcf, make_ymd / make_days, and the difference of two dates in       *)
(*     years with the two sums that undo it.                               *)
(* A behaviour picks one machine and its inputs in Init and then runs it.  *)
(***************************************************************************)
EXTENDS Integers, Sequences, FiniteSets

VARIABLES
    machine,      \* "periodic" | "periodic_iterable" | "adjust"
    \* ---- schedule iterator (both implementations)
    effective,    \* member: ymd (periodic) or time point in ticks (periodic_iterable)
    termination,  \* member
    period,       \* member: `months` (periodic) or `duration` in ticks (periodic_iterable)
    current,      \* member
    ctorEnd,      \* constructor argument `end` of periodic
    pc,           \* "ctor" | "reset" | "ready" | "trapped" | "idle"
    firstYielded, \* the first date the traversal loop read through operator*
    lastYielded,  \* the latest date the traversal loop read through operator*
    restarts,     \* calls of begin() and of operator= made on the iterator so far
    constructed,  \* <<current>> as the constructor of the schedule at hand left it;
                  \* <<>> before that and for an end iterator
    lastOp,       \* the caller's latest operation:
                  \* "none" | "next" | "past" | "begin" | "assign"
    \* ---- adjust
    adjVersion,   \* "fms_date_h" | "part_002"
    adjCal,       \* the calendar passed: "weekday" | "example" | "every_day"
    adjDate0,     \* argument `date` of the outermost call
    adjConv0,     \* argument `convention` of the outermost call
    adjDate,      \* argument `date` of the innermost active call
    adjConv,      \* argument `convention` of the innermost active call
    adjCont,      \* the caller waiting for the innermost call: "top" or a modified_* frame
    adjCalls,     \* nested calls of adjust made so far
    adjPc,        \* "call" | "done" | "idle"
    adjResult,    \* value returned by the outermost call
    adjRound,     \* 1: adjust(d, ...); 2: adjust applied to the result of round 1
    adjFirst,     \* the result of round 1
    \* ---- functions of one call
    fnPc,         \* "call" | "done" | "idle"
    fnArgs,       \* the arguments of the call
    fnResult      \* what the call returned

schedVars == <<effective, termination, period, current, ctorEnd, pc,
               firstYielded, lastYielded, restarts, constructed, lastOp>>
adjVars == <<adjVersion, adjCal, adjDate0, adjConv0, adjDate, adjConv, adjCont,
             adjCalls, adjPc, adjResult, adjRound, adjFirst>>
fnVars == <<fnPc, fnArgs, fnResult>>
vars == <<machine, schedVars, adjVars, fnVars>>

(***************************************************************************)
(* std::chrono::year_month_day as the code uses it.                        *)
(***************************************************************************)

is_leap(y) == (y % 4 = 0) /\ ((y % 100 # 0) \/ (y % 400 = 0))

last_day_of_month(y, m) ==
    IF m = 2 THEN (IF is_leap(y) THEN 29 ELSE 28)
    ELSE IF m \in {4, 6, 9, 11} THEN 30 ELSE 31

\* year(int) keeps 16 bits (signed); month(unsigned) and day(unsigned) keep 8 bits.
year_of(y) == ((y + 32768) % 65536) - 32768
month_of(m) == m % 256
day_of(d) == d % 256

\* make_ymd: the fields are stored as given, nothing is checked or clamped.
make_ymd(y, m, d) == [y |-> year_of(y), m |-> month_of(m), d |-> day_of(d)]

\* ymd{}: what adjust returns for an unknown convention.
ymd_error == make_ymd(0, 0, 0)

\* year_month_day::ok(): year().ok(), month().ok() and a day of that month.
ymd_ok(t) == /\ t.y \in -32767..32767
             /\ t.m \in 1..12
             /\ t.d >= 1
             /\ t.d <= last_day_of_month(t.y, t.m)

\* sys_days(ymd): days since 1970-01-01, as year_month_day::_M_days_since_epoch
\* of the library of the build computes it, for any fields held: a month field
\* of 0..2 counts as month 12..14 of the year before, a month field above 12
\* counts on from March, the day field adds d - 1 days. (The standard leaves
\* the value open when the month is not in 1..12.) 1461 * y0 / 4 is written
\* 365 * y0 + y0 / 4, the same number; the sum stays inside 32 bits, where the
\* unsigned arithmetic of the library and this signed one agree.
days_from_civil(y, m, d) ==
    LET y1 == y + 1468000
        j  == IF m < 3 THEN 1 ELSE 0
        y0 == y1 - j
        m0 == IF j = 1 THEN m + 12 ELSE m
        d0 == d - 1
        q1 == y0 \div 100
        yc == 365 * y0 + y0 \div 4 - q1 + q1 \div 4
        mc == (979 * m0 - 2919) \div 32
    IN  yc + mc + d0 - 536895458

sys_days(t) == days_from_civil(t.y, t.m, t.d)

\* ymd(sys_days): the calendar date of a day number.
civil_from_days(z) ==
    LET zz  == z + 719468
        era == zz \div 146097
        doe == zz - era * 146097
        yoe == (doe - doe \div 1460 + doe \div 36524 - doe \div 146096) \div 365
        doy == doe - (365 * yoe + yoe \div 4 - yoe \div 100)
        mp  == (5 * doy + 2) \div 153
        d   == doy - (153 * mp + 2) \div 5 + 1
        m   == IF mp < 10 THEN mp + 3 ELSE mp - 9
        y   == yoe + era * 400 + (IF m <= 2 THEN 1 ELSE 0)
    IN  make_ymd(y, m, d)

\* weekday of a day number: 0 = Sunday .. 6 = Saturday (1970-01-01 was a Thursday).
weekday_from_days(z) == (z + 4) % 7

\* year_month_day + months: the year and month move, the day field is kept as it is.
ymd_plus_months(t, dm) ==
    LET mi == (t.m - 1) + dm
        dy == mi \div 12
    IN  make_ymd(t.y + dy, mi - dy * 12 + 1, t.d)

\* operator<=> of year_month_day: lexicographic on (year, month, day).
ymd_less(a, b) ==
    \/ a.y < b.y
    \/ (a.y = b.y /\ a.m < b.m)
    \/ (a.y = b.y /\ a.m = b.m /\ a.d < b.d)

ymd_leq(a, b) == (a = b) \/ ymd_less(a, b)

(***************************************************************************)
(* Calendars: true on a day that is NOT a business day.                    *)
(***************************************************************************)

month_day(t, month, day) == (t.m = month) /\ (t.d = day)

new_year_day(t) == month_day(t, 1, 1)

weekday(t) == weekday_from_days(sys_days(t)) \in {6, 0}

example(t) == weekday(t) \/ new_year_day(t)

\* The call through the `calendar` function pointer. "every_day" is a caller's
\* predicate that flags every date.
cal(c, t) ==
    IF c = "weekday" THEN weekday(t)
    ELSE IF c = "example" THEN example(t)
    ELSE TRUE

(***************************************************************************)
(* adjust: roll a date to a business day.  One step of the machine runs    *)
(* one invocation of the function body, up to the nested call it makes or  *)
(* to its return.                                                          *)
(***************************************************************************)

\* Bounds of the model.
AdjSpan == 44       \* input dates: AdjFirstDay .. AdjFirstDay + AdjSpan
MaxCalls == 12      \* horizon: nested calls of adjust followed in one run

AdjFirstDay == sys_days(make_ymd(2022, 12, 24))
AdjDates == { civil_from_days(z) : z \in AdjFirstDay .. (AdjFirstDay + AdjSpan) }
AdjCalendars == {"weekday", "example", "every_day"}

\* enum class roll, per version.
RollOf(version) ==
    IF version = "fms_date_h"
    THEN {"none", "previous", "following", "modified_following"}
    ELSE {"none", "following", "previous", "modified_following", "modified_previous"}

Return(t) == [op |-> "return", date |-> t]
Call(t, conv, cont) == [op |-> "call", date |-> t, conv |-> conv, cont |-> cont]

\* ymd + days, through sys_days, as in `sys_days(date) + std::chrono::days(1)`.
ymd_plus_days(t, n) == civil_from_days(sys_days(t) + n)

\* Mutant of adjust_part_002: the calendar test read with the opposite polarity
\* (true on business days).
InvertedGuard_part_002(c, date, conv) ==
    IF cal(c, date) THEN Return(date)
    ELSE CASE conv = "none" -> Return(date)
           [] conv = "previous" -> Call(ymd_plus_days(date, -1), conv, "tail")
           [] conv = "following" -> Call(ymd_plus_days(date, 1), conv, "tail")
           [] conv = "modified_following" ->
                 Call(ymd_plus_days(date, 0), "following", "modified_following")
           [] conv = "modified_previous" ->
                 Call(ymd_plus_days(date, 0), "previous", "modified_previous")
           [] OTHER -> Return(ymd_error)

\* adjust of src/unnamed/part_002 (and part_003): the body up to its first nested call.
adjust_part_002(c, date, conv) ==
    IF ~cal(c, date) THEN Return(date)
    ELSE CASE conv = "none" -> Return(date)
           [] conv = "previous" -> Call(ymd_plus_days(date, -1), conv, "tail")
           [] conv = "following" -> Call(ymd_plus_days(date, 1), conv, "tail")
           [] conv = "modified_following" ->
                 Call(ymd_plus_days(date, 0), "following", "modified_following")
           [] conv = "modified_previous" ->
                 Call(ymd_plus_days(date, 0), "previous", "modified_previous")
           [] OTHER -> Return(ymd_error)

\* Mutant of adjust_part_002_resume: modified_following without the month test.
NoMonthTest_part_002(cont, date, date_) ==
    IF cont = "modified_following"
    THEN Return(date_)
    ELSE (IF date_.m = date.m THEN Return(date_) ELSE Call(date, "following", "tail"))

\* Mutant of adjust_part_002_resume: modified_previous without the month test.
NoFallback_part_002(cont, date, date_) ==
    IF cont = "modified_following"
    THEN (IF date_.m = date.m THEN Return(date_) ELSE Call(date, "previous", "tail"))
    ELSE Return(date_)

\* adjust of src/unnamed/part_002: the modified_* cases once `date_` is known.
adjust_part_002_resume(cont, date, date_) ==
    IF cont = "modified_following"
    THEN (IF date_.m = date.m THEN Return(date_) ELSE Call(date, "previous", "tail"))
    ELSE (IF date_.m = date.m THEN Return(date_) ELSE Call(date, "following", "tail"))

\* Mutant of adjust_fms_date_h: following steps one day back.
WrongWay_fms_date_h(c, date, conv) ==
    CASE conv = "previous" ->
            IF ~cal(c, date) THEN Return(date)
            ELSE Call(ymd_plus_days(date, -1), conv, "tail")
      [] conv = "following" ->
            IF ~cal(c, date) THEN Return(date)
            ELSE Call(ymd_plus_days(date, -1), conv, "tail")
      [] conv = "modified_following" ->
            IF ~cal(c, date) THEN Return(date)
            ELSE Call(ymd_plus_days(date, 1), "following", "modified_following")
      [] OTHER -> Return(date)

\* adjust of src/fms_date.h: the body up to its first nested call.
adjust_fms_date_h(c, date, conv) ==
    CASE conv = "previous" ->
            IF ~cal(c, date) THEN Return(date)
            ELSE Call(ymd_plus_days(date, -1), conv, "tail")
      [] conv = "following" ->
            IF ~cal(c, date) THEN Return(date)
            ELSE Call(ymd_plus_days(date, 1), conv, "tail")
      [] conv = "modified_following" ->
            IF ~cal(c, date) THEN Return(date)
            ELSE Call(ymd_plus_days(date, 1), "following", "modified_following")
      [] OTHER -> Return(date)

\* adjust of src/fms_date.h: modified_following once `date_` is known.
adjust_fms_date_h_resume(cont, date, date_) ==
    IF date_.m = date.m THEN Return(date) ELSE Call(date, "previous", "tail")

adjust_body(version, c, date, conv) ==
    IF version = "fms_date_h" THEN adjust_fms_date_h(c, date, conv)
    ELSE adjust_part_002(c, date, conv)

adjust_resume(version, cont, date, date_) ==
    IF version = "fms_date_h" THEN adjust_fms_date_h_resume(cont, date, date_)
    ELSE adjust_part_002_resume(cont, date, date_)

SchedIdle ==
    /\ effective = ymd_error /\ termination = ymd_error /\ period = 0
    /\ current = ymd_error /\ ctorEnd = FALSE /\ pc = "idle"
    /\ firstYielded = ymd_error /\ lastYielded = ymd_error
    /\ restarts = 0 /\ constructed = <<>> /\ lastOp = "none"

FnIdle == fnPc = "idle" /\ fnArgs = <<>> /\ fnResult = <<>>

\* The outermost call adjust(date, convention, cal) is entered.
InitAdjust ==
    /\ machine = "adjust"
    /\ SchedIdle
    /\ FnIdle
    /\ adjVersion \in {"fms_date_h", "part_002"}
    /\ adjCal \in AdjCalendars
    /\ adjDate0 \in AdjDates
    /\ adjConv0 \in RollOf(adjVersion)
    /\ adjDate = adjDate0
    /\ adjConv = adjConv0
    /\ adjCont = "top"
    /\ adjCalls = 0
    /\ adjPc = "call"
    /\ adjResult = ymd_error
    /\ adjRound = 1
    /\ adjFirst = ymd_error

AdjustFrame == <<machine, schedVars, fnVars, adjVersion, adjCal, adjDate0, adjConv0,
                 adjRound, adjFirst>>

\* The active invocation makes its nested call.
AdjustCall ==
    /\ adjPc = "call"
    /\ adjCalls < MaxCalls
    /\ LET r == adjust_body(adjVersion, adjCal, adjDate, adjConv) IN
        /\ r.op = "call"
        /\ adjDate' = r.date
        /\ adjConv' = r.conv
        /\ adjCont' = IF r.cont = "tail" THEN adjCont ELSE r.cont
        /\ adjCalls' = adjCalls + 1
    /\ UNCHANGED <<AdjustFrame, adjPc, adjResult>>

\* The active invocation returns and no modified_* frame waits for it:
\* the value is the result of the outermost call.
AdjustReturn ==
    /\ adjPc = "call"
    /\ adjCont = "top"
    /\ LET r == adjust_body(adjVersion, adjCal, adjDate, adjConv) IN
        /\ r.op = "return"
        /\ adjResult' = r.date
        /\ adjPc' = "done"
    /\ UNCHANGED <<AdjustFrame, adjDate, adjConv, adjCont, adjCalls>>

\* The active invocation returns `date_` to the modified_* frame of the outermost
\* call, which compares the months and returns or makes its second call.
AdjustResume ==
    /\ adjPc = "call"
    /\ adjCont # "top"
    /\ LET r == adjust_body(adjVersion, adjCal, adjDate, adjConv) IN
        /\ r.op = "return"
        /\ LET k == adjust_resume(adjVersion, adjCont, adjDate0, r.date) IN
            IF k.op = "return"
            THEN /\ adjResult' = k.date
                 /\ adjPc' = "done"
                 /\ UNCHANGED <<adjDate, adjConv, adjCalls>>
            ELSE /\ adjCalls < MaxCalls
                 /\ adjDate' = k.date
                 /\ adjConv' = k.conv
                 /\ adjCalls' = adjCalls + 1
                 /\ UNCHANGED <<adjPc, adjResult>>
    /\ adjCont' = "top"
    /\ UNCHANGED AdjustFrame

\* The caller passes the result to adjust once more, with the same convention
\* and calendar.
AdjustAgain ==
    /\ adjPc = "done"
    /\ adjRound = 1
    /\ adjRound' = 2
    /\ adjFirst' = adjResult
    /\ adjDate0' = adjResult
    /\ adjDate' = adjResult
    /\ adjConv' = adjConv0
    /\ adjCont' = "top"
    /\ adjCalls' = 0
    /\ adjPc' = "call"
    /\ UNCHANGED <<machine, schedVars, fnVars, adjVersion, adjCal, adjConv0, adjResult>>

AdjustIdle ==
    /\ adjVersion = "none" /\ adjCal = "none" /\ adjDate0 = ymd_error
    /\ adjConv0 = "none" /\ adjDate = ymd_error /\ adjConv = "none"
    /\ adjCont = "top" /\ adjCalls = 0 /\ adjPc = "idle" /\ adjResult = ymd_error
    /\ adjRound = 0 /\ adjFirst = ymd_error

(***************************************************************************)
(* Schedules, working backwards from termination in steps of the period.   *)
(***************************************************************************)

\* Bound of the model: begin() and operator= are called at most MaxRestarts
\* times on one iterator.
MaxRestarts == 2

\* No date read yet.
NoDate == ymd_error

\* ---- periodic (src/unnamed/part_002): month steps on a year_month_day.

PeriodicDates ==
    { make_ymd(2022, 11, 30), make_ymd(2023, 1, 2), make_ymd(2023, 1, 3),
      make_ymd(2023, 1, 31), make_ymd(2023, 3, 31), make_ymd(2024, 2, 29),
      make_ymd(2025, 1, 2) }
\* The negative periods are 10000 and 1000 years: a schedule stepping backwards
\* goes on until the 16-bit year wraps round, and these get there in a few
\* steps.
PeriodicMonths == {-120000, -12000, 0, 1, 3, 12}
\* The schedules an iterator is assigned from.
PeriodicAssignDates == { make_ymd(2023, 1, 3), make_ymd(2024, 2, 29) }
PeriodicAssignMonths == {-12000, 0, 1}

\* periodic::valid
periodic_valid(eff, ter, months) ==
    IF eff = ter THEN months = 0
    ELSE ymd_less(eff, ter) = (months > 0)

\* Mutant of periodic_bool: the iterator is exhausted on reaching termination.
StrictBool(cur, ter) == ymd_less(cur, ter)

\* periodic::operator bool
periodic_bool(cur, ter) == ymd_leq(cur, ter)

\* periodic::operator*
periodic_deref(cur) == cur

\* Mutant of periodic_increment: ++ moves by two periods.
DoubleStep(cur, ter, months) ==
    IF periodic_bool(cur, ter) THEN ymd_plus_months(cur, 2 * months) ELSE cur

\* periodic::operator++
periodic_increment(cur, ter, months) ==
    IF periodic_bool(cur, ter) THEN ymd_plus_months(cur, months) ELSE cur

\* periodic::reset, the loop condition
periodic_reset_test(cur, eff, months) == ymd_leq(eff, ymd_plus_months(cur, -months))

\* periodic::reset, the loop body
periodic_reset_body(cur, months) == ymd_plus_months(cur, -months)

\* The constructor's member initialisers have run.
InitPeriodic ==
    /\ machine = "periodic"
    /\ AdjustIdle
    /\ FnIdle
    /\ effective \in PeriodicDates
    /\ termination \in PeriodicDates
    /\ period \in PeriodicMonths
    /\ ctorEnd \in BOOLEAN
    /\ current = termination
    /\ pc = "ctor"
    /\ firstYielded = NoDate
    /\ lastYielded = NoDate
    /\ restarts = 0
    /\ constructed = <<>>
    /\ lastOp = "none"

SchedFrame == <<machine, adjVars, fnVars, effective, termination, period, restarts>>

\* `constructed` once a constructor has returned leaving `current` at cur: the
\* constructor of a schedule (not of an end iterator) that the program or an
\* assignment set off is recorded; the one begin() runs is not.
ConstructedBy(cur) == IF ~ctorEnd /\ lastOp # "begin" THEN <<cur>> ELSE constructed

\* The constructor's body: ++ for an end iterator, reset() for a valid schedule.
PeriodicCtor ==
    /\ machine = "periodic"
    /\ pc = "ctor"
    /\ IF ctorEnd
       THEN /\ current' = periodic_increment(current, termination, period)
            /\ pc' = "ready"
            /\ UNCHANGED constructed
       ELSE IF periodic_valid(effective, termination, period)
            THEN /\ pc' = "reset"
                 /\ UNCHANGED <<current, constructed>>
            ELSE /\ pc' = "ready"
                 /\ constructed' = ConstructedBy(current)
                 /\ UNCHANGED current
    /\ UNCHANGED <<SchedFrame, ctorEnd, firstYielded, lastYielded, lastOp>>

\* One evaluation of the loop of reset().
PeriodicReset ==
    /\ machine = "periodic"
    /\ pc = "reset"
    /\ IF periodic_reset_test(current, effective, period)
       THEN /\ current' = periodic_reset_body(current, period)
            /\ UNCHANGED <<pc, constructed>>
       ELSE /\ pc' = "ready"
            /\ constructed' = ConstructedBy(current)
            /\ UNCHANGED current
    /\ UNCHANGED <<SchedFrame, ctorEnd, firstYielded, lastYielded, lastOp>>

\* One round of the traversal `for (; p; ++p) use(*p)`: the test, the read, the ++.
PeriodicNext ==
    /\ machine = "periodic"
    /\ pc = "ready"
    /\ periodic_bool(current, termination)
    /\ firstYielded' = IF firstYielded = NoDate THEN periodic_deref(current)
                       ELSE firstYielded
    /\ lastYielded' = periodic_deref(current)
    /\ current' = periodic_increment(current, termination, period)
    /\ lastOp' = "next"
    /\ UNCHANGED <<SchedFrame, ctorEnd, pc, constructed>>

\* ++ on an exhausted iterator.
PeriodicPast ==
    /\ machine = "periodic"
    /\ pc = "ready"
    /\ ~periodic_bool(current, termination)
    /\ current' = periodic_increment(current, termination, period)
    /\ lastOp' = "past"
    /\ UNCHANGED <<SchedFrame, ctorEnd, pc, firstYielded, lastYielded, constructed>>

\* begin(): a new periodic(effective, termination, months) is constructed, and
\* the caller goes on with it.
PeriodicBegin ==
    /\ machine = "periodic"
    /\ pc = "ready"
    /\ restarts < MaxRestarts
    /\ restarts' = restarts + 1
    /\ lastOp' = "begin"
    /\ ctorEnd' = FALSE
    /\ current' = termination
    /\ pc' = "ctor"
    /\ firstYielded' = NoDate
    /\ lastYielded' = NoDate
    /\ UNCHANGED <<machine, adjVars, fnVars, effective, termination, period,
                   constructed>>

\* operator=, as in `p = periodic(effective, termination, months, end)`: a new
\* iterator is constructed and every member of p is overwritten with its
\* members; the caller goes on with p.
PeriodicAssign ==
    /\ machine = "periodic"
    /\ pc = "ready"
    /\ restarts < MaxRestarts
    /\ restarts' = restarts + 1
    /\ lastOp' = "assign"
    /\ effective' \in PeriodicAssignDates
    /\ termination' \in PeriodicAssignDates
    /\ period' \in PeriodicAssignMonths
    /\ ctorEnd' \in BOOLEAN
    /\ current' = termination'
    /\ pc' = "ctor"
    /\ firstYielded' = NoDate
    /\ lastYielded' = NoDate
    /\ constructed' = <<>>
    /\ UNCHANGED <<machine, adjVars, fnVars>>

\* ---- periodic_iterable (src/fms_date.h): time points of the system clock.

\* The model's tick of system_clock::duration, in seconds: days, months
\* (2629746 s) and years (31556952 s) are whole numbers of it.
TickSeconds == 54

\* system_clock::duration counts nanoseconds in 64 signed bits. TickMax: the
\* whole ticks in 2^63 - 1 ns; TickWrap: the whole ticks in 2^64 ns.
TickMax == 170803185
TickWrap == 341606371

chrono_days(n) == n * (86400 \div TickSeconds)
chrono_months(n) == n * (2629746 \div TickSeconds)
chrono_years(n) == n * (31556952 \div TickSeconds)

\* days(ymd), converted to a time point of the clock
time_point(t) == chrono_days(sys_days(t))

\* value_type{ floor<std::chrono::days>(current) }
floor_days(tp) == civil_from_days(tp \div chrono_days(1))

\* What a sum or difference of time point and duration, x in exact arithmetic,
\* leaves in the 64-bit count. When the count can hold x: x. When it cannot
\* (signed overflow, undefined behaviour): the count modulo 2^64 ns, in whole
\* ticks rounded down, in a build that does not check; or the program is
\* stopped there, in a build that checks signed arithmetic.
signed_outcomes(x) ==
    IF -TickMax <= x /\ x <= TickMax
    THEN { [trap |-> FALSE, v |-> x] }
    ELSE { [trap |-> FALSE, v |-> IF x > TickMax THEN x - TickWrap - 1 ELSE x + TickWrap],
           [trap |-> TRUE, v |-> 0] }

IterableDates ==
    { make_ymd(2023, 1, 2), make_ymd(2023, 1, 3), make_ymd(2023, 1, 12),
      make_ymd(2023, 1, 13), make_ymd(2025, 1, 2) }
IterableDurations ==
    { chrono_years(-50), chrono_years(-1), 0, chrono_days(5), chrono_months(1),
      chrono_years(1) }
\* The schedules an iterator is assigned from.
IterableAssignDates == { make_ymd(2023, 1, 2), make_ymd(2023, 1, 12) }
IterableAssignDurations == { chrono_years(-50), 0, chrono_days(5) }

\* periodic_iterable::valid
iterable_valid(eff, ter, duration) ==
    IF eff = ter THEN duration = 0
    ELSE (eff < ter) = (duration > 0)

\* periodic_iterable::operator bool
iterable_bool(cur, ter) == cur <= ter

\* periodic_iterable::operator*
iterable_deref(cur) == floor_days(cur)

\* Mutant of iterable_increment: ++ without the test of operator bool.
UnguardedIncrement(cur, ter, duration) == cur + duration

\* periodic_iterable::operator++, in exact arithmetic
iterable_increment(cur, ter, duration) ==
    IF iterable_bool(cur, ter) THEN cur + duration ELSE cur

\* periodic_iterable::reset, the loop condition on the value of
\* `current - duration`
iterable_reset_test(diff, eff) == diff > eff

\* periodic_iterable::reset, `current - duration` of the loop condition and of
\* the loop body, in exact arithmetic
iterable_reset_body(cur, duration) == cur - duration

InitIterable ==
    /\ machine = "periodic_iterable"
    /\ AdjustIdle
    /\ FnIdle
    /\ \E e \in IterableDates : effective = time_point(e)
    /\ \E t \in IterableDates : termination = time_point(t)
    /\ period \in IterableDurations
    /\ ctorEnd = FALSE
    /\ current = termination
    /\ pc = "ctor"
    /\ firstYielded = NoDate
    /\ lastYielded = NoDate
    /\ restarts = 0
    /\ constructed = <<>>
    /\ lastOp = "none"

\* The constructor's body: reset() for a valid schedule.
IterableCtor ==
    /\ machine = "periodic_iterable"
    /\ pc = "ctor"
    /\ IF iterable_valid(effective, termination, period)
       THEN /\ pc' = "reset"
            /\ UNCHANGED constructed
       ELSE /\ pc' = "ready"
            /\ constructed' = ConstructedBy(current)
    /\ UNCHANGED <<SchedFrame, ctorEnd, current, firstYielded, lastYielded, lastOp>>

\* One evaluation of the loop of reset().
IterableReset ==
    /\ machine = "periodic_iterable"
    /\ pc = "reset"
    /\ \E o \in signed_outcomes(iterable_reset_body(current, period)) :
        IF o.trap
        THEN /\ pc' = "trapped"
             /\ UNCHANGED <<current, constructed>>
        ELSE IF iterable_reset_test(o.v, effective)
             THEN /\ current' = o.v
                  /\ UNCHANGED <<pc, constructed>>
             ELSE /\ pc' = "ready"
                  /\ constructed' = ConstructedBy(current)
                  /\ UNCHANGED current
    /\ UNCHANGED <<SchedFrame, ctorEnd, firstYielded, lastYielded, lastOp>>

\* One round of the traversal `for (; pi; ++pi) use(*pi)`.
IterableNext ==
    /\ machine = "periodic_iterable"
    /\ pc = "ready"
    /\ iterable_bool(current, termination)
    /\ firstYielded' = IF firstYielded = NoDate THEN iterable_deref(current)
                       ELSE firstYielded
    /\ lastYielded' = iterable_deref(current)
    /\ \E o \in signed_outcomes(iterable_increment(current, termination, period)) :
        IF o.trap
        THEN /\ pc' = "trapped"
             /\ UNCHANGED current
        ELSE /\ current' = o.v
             /\ UNCHANGED pc
    /\ lastOp' = "next"
    /\ UNCHANGED <<SchedFrame, ctorEnd, constructed>>

\* ++ on an exhausted iterator.
IterablePast ==
    /\ machine = "periodic_iterable"
    /\ pc = "ready"
    /\ ~iterable_bool(current, termination)
    /\ \E o \in signed_outcomes(iterable_increment(current, termination, period)) :
        IF o.trap
        THEN /\ pc' = "trapped"
             /\ UNCHANGED current
        ELSE /\ current' = o.v
             /\ UNCHANGED pc
    /\ lastOp' = "past"
    /\ UNCHANGED <<SchedFrame, ctorEnd, firstYielded, lastYielded, constructed>>

\* begin(): returns *this, a copy of the iterator as it is, and the caller goes
\* on with it.
IterableBegin ==
    /\ machine = "periodic_iterable"
    /\ pc = "ready"
    /\ restarts < MaxRestarts
    /\ restarts' = restarts + 1
    /\ lastOp' = "begin"
    /\ UNCHANGED <<machine, adjVars, fnVars, effective, termination, period,
                   current, ctorEnd, pc, firstYielded, lastYielded, constructed>>

\* operator=, as in `pi = periodic_iterable(effective, termination, duration)`:
\* a new iterator is constructed and every member of pi is overwritten with
\* its members; the caller goes on with pi.
IterableAssign ==
    /\ machine = "periodic_iterable"
    /\ pc = "ready"
    /\ restarts < MaxRestarts
    /\ restarts' = restarts + 1
    /\ lastOp' = "assign"
    /\ \E e \in IterableAssignDates : effective' = time_point(e)
    /\ \E t \in IterableAssignDates : termination' = time_point(t)
    /\ period' \in IterableAssignDurations
    /\ current' = termination'
    /\ pc' = "ctor"
    /\ firstYielded' = NoDate
    /\ lastYielded' = NoDate
    /\ constructed' = <<>>
    /\ UNCHANGED <<machine, adjVars, fnVars, ctorEnd>>

(***************************************************************************)
(* Functions of one call.                                                  *)
(***************************************************************************)

Abs(n) == IF n < 0 THEN -n ELSE n

\* A value of type `years` (a duration in years held in a double), as the
\* fraction n/d; each convention has its own denominator d.
Years(n, d) == [num |-> n, den |-> d]

\* An unsigned int, as its two 16-bit halves <<high, low>>.
to_unsigned(n) == <<n \div 65536, n % 65536>>

\* a - b of two unsigned ints: the difference modulo 2^32.
unsigned_minus(a, b) ==
    LET lo == a[2] - b[2]
        hi == a[1] - b[1] - (IF lo < 0 THEN 1 ELSE 0)
    IN  <<hi % 65536, lo % 65536>>

\* Conversion of an unsigned int to int: the value modulo 2^32 in
\* -2^31 .. 2^31 - 1.
unsigned_to_int(u) ==
    IF u[1] >= 32768 THEN (u[1] - 65536) * 65536 + u[2] ELSE u[1] * 65536 + u[2]

\* ---- namespace dcf (src/unnamed/part_002)

\* sys_days(t1) - sys_days(t0), a count of days
days_between(t0, t1) == sys_days(t1) - sys_days(t0)

\* years(n): n days converted to years, 146097 days to 400 years
years_of_days(n) == Years(n * 400, 146097)

\* operator-(d0, d1) on two ymd
ymd_minus(d0, d1) == years_of_days(sys_days(d0) - sys_days(d1))

\* dcf::_years
dcf_years(d0, d1) == ymd_minus(d1, d0)

\* Mutant of dcf_30_360: the day 31 of t1 is always read as 30.
Always30_30_360(t0, t1) ==
    LET d0 == IF t0.d = 31 THEN 30 ELSE t0.d
        d1 == IF t1.d = 31 THEN 30 ELSE t1.d
        dy == t1.y - t0.y
        dm == unsigned_to_int(unsigned_minus(to_unsigned(t1.m), to_unsigned(t0.m)))
        dd == unsigned_to_int(unsigned_minus(to_unsigned(d1), to_unsigned(d0)))
    IN  Years(360 * dy + 30 * dm + dd, 360)

\* Mutant of dcf_30_360: no day 31 is read as 30.
NoAdjust_30_360(t0, t1) ==
    LET dy == t1.y - t0.y
        dm == unsigned_to_int(unsigned_minus(to_unsigned(t1.m), to_unsigned(t0.m)))
        dd == unsigned_to_int(unsigned_minus(to_unsigned(t1.d), to_unsigned(t0.d)))
    IN  Years(360 * dy + 30 * dm + dd, 360)

\* dcf::_30_360
dcf_30_360(t0, t1) ==
    LET d0 == IF t0.d = 31 THEN 30 ELSE t0.d
        d1 == IF t1.d = 31 /\ d0 > 29 THEN 30 ELSE t1.d
        dy == t1.y - t0.y
        dm == unsigned_to_int(unsigned_minus(to_unsigned(t1.m), to_unsigned(t0.m)))
        dd == unsigned_to_int(unsigned_minus(to_unsigned(d1), to_unsigned(d0)))
    IN  Years(360 * dy + 30 * dm + dd, 360)

\* dcf::_actual_360: the quotient days / 360. is a duration in days, and the
\* return converts it to `years`.
dcf_actual_360(t0, t1) == Years(days_between(t0, t1) * 400, 360 * 146097)


\* dcf::_actual_365
dcf_actual_365(t0, t1) == Years(days_between(t0, t1) * 400, 365 * 146097)

\* The four conventions, applied to one pair of dates.
dcf_all(t0, t1) ==
    [years |-> dcf_years(t0, t1), d30_360 |-> dcf_30_360(t0, t1),
     actual_360 |-> dcf_actual_360(t0, t1), actual_365 |-> dcf_actual_365(t0, t1)]

DcfDates ==
    { t \in { make_ymd(y, m, d) : y \in 2023..2025, m \in {1, 2, 3, 12},
                                  d \in {2, 4, 28, 29, 30, 31} } : ymd_ok(t) }

InitDcf ==
    /\ machine = "dcf"
    /\ SchedIdle
    /\ AdjustIdle
    /\ fnPc = "call"
    /\ \E t0 \in DcfDates, t1 \in DcfDates : fnArgs = [t0 |-> t0, t1 |-> t1]
    /\ fnResult = <<>>

\* Each convention is applied to (t0, t1) and to (t1, t0).
DcfCall ==
    /\ machine = "dcf"
    /\ fnPc = "call"
    /\ fnResult' = [fwd |-> dcf_all(fnArgs.t0, fnArgs.t1),
                    rev |-> dcf_all(fnArgs.t1, fnArgs.t0)]
    /\ fnPc' = "done"
    /\ UNCHANGED <<machine, schedVars, adjVars, fnArgs>>

\* ---- d0 - d1 in years, and the sums that undo it (src/fms_date.h,
\* src/unnamed/part_002)
\*
\* `years` holds a double. The doubles met here are written with integers:
\*   - a quotient 400|n| / 146097 rounded to 53 bits is M * 2^(exp - 52) with
\*     2^52 <= M <= 2^53, and is held as n, exp and
\*     delta = M * 146097 - 400|n| * 2^(52 - exp);
\*   - a count of 216 s ticks (the common period of days and years: one day
\*     is 400 ticks, one year 146097) is whole + ulps * 2^(exp - 52), where
\*     2^exp <= |operand| < 2^(exp+1) and ulps is -1, 0 or 1.

floor_log2[n \in Nat] == IF n < 2 THEN 0 ELSE 1 + floor_log2[n \div 2]

\* floor(log2(a / b)) for a, b >= 1
quotient_exp_up[a \in Nat, b \in Nat, e \in Int] ==
    IF a < 2 * b THEN e ELSE quotient_exp_up[a, 2 * b, e + 1]
quotient_exp_down[a \in Nat, b \in Nat, e \in Int] ==
    IF a >= b THEN e ELSE quotient_exp_down[2 * a, b, e - 1]
quotient_exp(a, b) ==
    IF a >= b THEN quotient_exp_up[a, b, 0] ELSE quotient_exp_down[a, b, 0]

\* (r * 2^k) mod b
shift_mod[r \in Nat, k \in Nat, b \in Nat] ==
    IF k = 0 THEN r ELSE shift_mod[(2 * r) % b, k - 1, b]

\* years(days(n)): the double n * 400. / 146097., rounded to nearest
years_double(n) ==
    IF n = 0 THEN [days |-> 0, delta |-> 0, exp |-> 0]
    ELSE LET a == 400 * Abs(n)
             e == quotient_exp(a, 146097)
             r == shift_mod[a % 146097, 52 - e, 146097]
         IN  [days |-> n, exp |-> e,
              delta |-> IF 2 * r < 146097 THEN -r ELSE 146097 - r]

\* minus_years(d0, d1) of src/fms_date.h, operator-(d0, d1) of part_002
minus_years(d0, d1) == years_double(sys_days(d0) - sys_days(d1))

\* a time point of sys_days converted to the common type: days * 400., exact
ticks_of_days(z) == [whole |-> 400 * z, ulps |-> 0, exp |-> 0]

\* a `years` converted to the common type: the double dt * 146097., rounded to
\* nearest, ties to even. The product is 400|n| + delta * 2^(exp - 52) exactly,
\* and one unit in the last place of 400|n| is 2^(floor_log2(400|n|) - 52).
ticks_of_years(dt) ==
    IF dt.days = 0 THEN [whole |-> 0, ulps |-> 0, exp |-> 0]
    ELSE LET a == floor_log2[400 * Abs(dt.days)]
             up == (a - dt.exp = 17) /\ (Abs(dt.delta) > 65536)
             sgn == IF (dt.days > 0) = (dt.delta > 0) THEN 1 ELSE -1
         IN  [whole |-> 400 * dt.days, ulps |-> IF up THEN sgn ELSE 0, exp |-> a]

\* x + y in the common type, x a whole number of ticks: the double sum, rounded
\* to nearest, ties to even. The part of y below a tick is lost when it is at
\* most half a unit in the last place of the sum.
ticks_plus(x, y) ==
    LET w == x.whole + y.whole
        lost == (y.ulps = 0) \/ (w # 0 /\ y.exp < floor_log2[Abs(w)])
    IN  [whole |-> w, ulps |-> IF lost THEN 0 ELSE y.ulps, exp |-> y.exp]

\* x - y in the common type
ticks_minus(x, y) ==
    ticks_plus(x, [whole |-> -y.whole, ulps |-> -y.ulps, exp |-> y.exp])

\* == on two time points of the common type, the right one a whole number of ticks
ticks_equal(x, y) == x.whole = y.whole /\ x.ulps = 0

MinusSpan == 12   \* bound: days after 1970-01-01 in MinusDates
MinusDates ==
    { civil_from_days(z) : z \in 0..MinusSpan } \cup
    { make_ymd(2000, 1, 1), make_ymd(2023, 4, 5), make_ymd(2024, 4, 5),
      make_ymd(2024, 4, 6), make_ymd(2024, 7, 6), make_ymd(2032, 1, 7) }

InitMinus ==
    /\ machine = "minus_years"
    /\ SchedIdle
    /\ AdjustIdle
    /\ fnPc = "call"
    /\ \E d0 \in MinusDates, d1 \in MinusDates : fnArgs = [d0 |-> d0, d1 |-> d1]
    /\ fnResult = <<>>

\* basic_date_test for one pair of dates: dd = minus_years(d0, d1);
\* d1 + dd == d0; d0 - dd == d1.
MinusCall ==
    /\ machine = "minus_years"
    /\ fnPc = "call"
    /\ LET dd == minus_years(fnArgs.d0, fnArgs.d1)
           d0 == ticks_of_days(sys_days(fnArgs.d0))
           d1 == ticks_of_days(sys_days(fnArgs.d1))
       IN  fnResult' = [dd |-> dd,
                        plus |-> ticks_equal(ticks_plus(d1, ticks_of_years(dd)), d0),
                        minus |-> ticks_equal(ticks_minus(d0, ticks_of_years(dd)), d1)]
    /\ fnPc' = "done"
    /\ UNCHANGED <<machine, schedVars, adjVars, fnArgs>>

\* ---- make_ymd and make_days (src/unnamed/part_002, src/fms_date.h)

\* make_days
make_days(y, m, d) == sys_days(make_ymd(y, m, d))

MakeYears == {2023, 2024}
MakeMonths == {-1, 0, 1, 2, 4, 12, 13, 15, 100, 257}
MakeDays == {0, 1, 28, 29, 30, 31, 32, 257}

InitMake ==
    /\ machine = "make_ymd"
    /\ SchedIdle
    /\ AdjustIdle
    /\ fnPc = "call"
    /\ \E y \in MakeYears, m \in MakeMonths, d \in MakeDays :
           fnArgs = [y |-> y, m |-> m, d |-> d]
    /\ fnResult = <<>>

\* make_ymd(y, m, d) and make_days(y, m, d): both return, there is no path
\* that throws or reports an error.
MakeCall ==
    /\ machine = "make_ymd"
    /\ fnPc = "call"
    /\ fnResult' = [ymd |-> make_ymd(fnArgs.y, fnArgs.m, fnArgs.d),
                    days |-> make_days(fnArgs.y, fnArgs.m, fnArgs.d)]
    /\ fnPc' = "done"
    /\ UNCHANGED <<machine, schedVars, adjVars, fnArgs>>

(***************************************************************************)
(* Specifications.                                                         *)
(***************************************************************************)

Init == InitPeriodic \/ InitIterable \/ InitAdjust \/ InitDcf \/ InitMinus \/ InitMake

Next ==
    \/ PeriodicCtor \/ PeriodicReset \/ PeriodicNext \/ PeriodicPast
    \/ PeriodicBegin \/ PeriodicAssign
    \/ IterableCtor \/ IterableReset \/ IterableNext \/ IterablePast
    \/ IterableBegin \/ IterableAssign
    \/ AdjustCall \/ AdjustReturn \/ AdjustResume \/ AdjustAgain
    \/ DcfCall \/ MinusCall \/ MakeCall

Spec == Init /\ [][Next]_vars

\* The code is sequential: a step that can be taken is taken.
FairSpec == Spec /\ WF_vars(Next)

(***************************************************************************)
(* Vocabulary of the properties.                                           *)
(***************************************************************************)

MaxPeriods == 150   \* bound: grid points termination - k*period looked at, k in 0..MaxPeriods

IsPeriodic == machine = "periodic"
IsIterable == machine = "periodic_iterable"
IsSchedule == IsPeriodic \/ IsIterable

\* operator bool of the iterator at hand
ScheduleBool ==
    IF IsPeriodic THEN periodic_bool(current, termination)
    ELSE iterable_bool(current, termination)

\* valid() of the iterator at hand
ScheduleValid ==
    IF IsPeriodic THEN periodic_valid(effective, termination, period)
    ELSE iterable_valid(effective, termination, period)

\* Construction is over and operator bool is false.
Exhausted == IsSchedule /\ pc = "ready" /\ ~ScheduleBool

\* The iterator has just been assigned another schedule.
Overwritten == IsSchedule /\ pc = "ctor" /\ lastOp = "assign"

\* Constructed as a schedule (not as an end iterator), effective < termination,
\* positive period.
Forward ==
    /\ IsSchedule
    /\ ~ctorEnd
    /\ period > 0
    /\ IF IsPeriodic THEN ymd_less(effective, termination) ELSE effective < termination

\* The termination date, as a date.
TerminationDate == IF IsPeriodic THEN termination ELSE floor_days(termination)
EffectiveDate == IF IsPeriodic THEN effective ELSE floor_days(effective)

\* The earliest date termination - k*period, k >= 0, that is >= effective.
EarliestOnGrid ==
    IF IsPeriodic
    THEN LET G == { k \in 0..MaxPeriods :
                      ymd_leq(effective, ymd_plus_months(termination, -(k * period))) }
             k == CHOOSE i \in G : \A j \in G : j <= i
         IN  ymd_plus_months(termination, -(k * period))
    ELSE LET G == { k \in 0..MaxPeriods : termination - k * period >= effective }
             k == CHOOSE i \in G : \A j \in G : j <= i
         IN  floor_days(termination - k * period)

(***************************************************************************)
(* Schedules: C1 - C4, C10.                                                *)
(***************************************************************************)

\* C1: for effective < termination and a positive period the traversal ends
\* (the iterator becomes exhausted), and the last date read before that is
\* exactly termination, whether or not termination - effective is a whole
\* number of periods.
C1_LastIsTermination ==
    /\ [](Forward /\ Exhausted => lastYielded = TerminationDate)
    /\ [](Forward => <>(Exhausted \/ Overwritten))

\* C1, witness: a traversal with a front stub (the first date is not effective)
\* has ended, and the last date read was termination.
C1_Witness ==
    /\ Forward /\ Exhausted
    /\ firstYielded # NoDate
    /\ firstYielded # EffectiveDate
    /\ lastYielded = TerminationDate

\* C2: for effective < termination and a positive period, in both
\* implementations, the first date read is the earliest date
\* termination - k*period (k >= 0) that is >= effective; it is effective when
\* termination - effective is a whole number of periods.
C2_FirstIsEarliest ==
    (Forward /\ firstYielded # NoDate) => firstYielded = EarliestOnGrid

\* C3: a schedule whose valid() is false yields no dates: it is exhausted as
\* soon as it is constructed.
C3_InvalidIsEmpty ==
    (IsSchedule /\ ~ctorEnd /\ ~ScheduleValid /\ pc = "ready") =>
        (~ScheduleBool /\ firstYielded = NoDate)

\* C4: a schedule that valid() accepts with a non-positive period is
\* constructed in finitely many steps and its traversal reaches the exhausted
\* state.
C4_BackwardTerminates ==
    [](IsSchedule /\ ~ctorEnd /\ ScheduleValid /\ period <= 0 =>
          <>(Exhausted \/ Overwritten))

\* C10: every date read from the month-step schedule `periodic` is a valid
\* calendar date (month in 1..12, day in 1..days in the month, leap years
\* counted); stated for the schedules with effective < termination and a
\* positive period, where the month steps would clamp the day.
C10_YieldedDatesValid ==
    (IsPeriodic /\ Forward /\ lastYielded # NoDate) => ymd_ok(lastYielded)

(***************************************************************************)
(* adjust: C5 - C9.                                                        *)
(***************************************************************************)

IsAdjust == machine = "adjust"
AdjustDone == IsAdjust /\ adjPc = "done"

\* The first business day on or after t (step 1) or on or before t (step -1),
\* searched over the model's horizon.
BusinessDays(c, t, step) ==
    { n \in 0..MaxCalls : ~cal(c, ymd_plus_days(t, step * n)) }
NearestBusinessDay(c, t, step) ==
    LET n == CHOOSE i \in BusinessDays(c, t, step) :
                 \A j \in BusinessDays(c, t, step) : i <= j
    IN  ymd_plus_days(t, step * n)
FollowingOf(c, t) == NearestBusinessDay(c, t, 1)
PreviousOf(c, t) == NearestBusinessDay(c, t, -1)

\* C5: with convention previous, following, modified_following or
\* modified_previous, no version of adjust returns a date the calendar flags.
C5_ResultIsBusinessDay ==
    (AdjustDone /\ adjConv0 # "none") => ~cal(adjCal, adjResult)

\* C6: modified_following on a non-business date returns the following
\* business day when that is in the month of the input, and the previous
\* business day otherwise.
C6_ModifiedFollowing ==
    (AdjustDone /\ adjConv0 = "modified_following" /\ cal(adjCal, adjDate0)) =>
        adjResult = IF FollowingOf(adjCal, adjDate0).m = adjDate0.m
                    THEN FollowingOf(adjCal, adjDate0)
                    ELSE PreviousOf(adjCal, adjDate0)

\* C7: modified_previous on a non-business date returns the previous business
\* day when that is in the month of the input, and the following business
\* day otherwise.
C7_ModifiedPrevious ==
    (AdjustDone /\ adjConv0 = "modified_previous" /\ cal(adjCal, adjDate0)) =>
        adjResult = IF PreviousOf(adjCal, adjDate0).m = adjDate0.m
                    THEN PreviousOf(adjCal, adjDate0)
                    ELSE FollowingOf(adjCal, adjDate0)

\* C7, witness: modified_previous has returned for a non-business date whose
\* previous business day is in another month.
C7_Witness ==
    /\ AdjustDone /\ adjRound = 1
    /\ adjConv0 = "modified_previous"
    /\ cal(adjCal, adjDate0)
    /\ PreviousOf(adjCal, adjDate0).m # adjDate0.m
    /\ adjResult = FollowingOf(adjCal, adjDate0)

\* C8: adjust returns a business day unchanged, under every convention; and
\* adjust applied to its own result returns that result.
C8_BusinessDayUnchanged ==
    /\ (AdjustDone /\ ~cal(adjCal, adjDate0)) => adjResult = adjDate0
    /\ (AdjustDone /\ adjRound = 2) => adjResult = adjFirst

\* C8, witness: the result of a first application, a business day, was passed to adjust
\* again under a rolling convention, and was returned unchanged.
C8_Witness ==
    /\ AdjustDone /\ adjRound = 2
    /\ adjConv0 \in {"previous", "following", "modified_following", "modified_previous"}
    /\ adjCalls = 0
    /\ ~cal(adjCal, adjDate0)
    /\ adjResult = adjDate0

\* C9: when the calendar flags every date, previous and following stop after
\* a bounded number of one-day steps and report a failure: a run that has
\* made MaxCalls nested calls has ended, and not with a date.
C9_BoundedRoll ==
    (IsAdjust /\ adjCal = "every_day" /\ adjConv0 \in {"previous", "following"}
        /\ adjCalls = MaxCalls) => adjPc = "failed"

(***************************************************************************)
(* Day count fractions: C11 - C13.                                         *)
(***************************************************************************)

IsDcf == machine = "dcf"
DcfDone == IsDcf /\ fnPc = "done"

\* The 30/360 count of days from t0 to t1, in signed arithmetic: the days 31
\* adjusted as the convention says.
Days30_360(t0, t1) ==
    LET d0 == IF t0.d = 31 THEN 30 ELSE t0.d
        d1 == IF t1.d = 31 /\ d0 > 29 THEN 30 ELSE t1.d
    IN  360 * (t1.y - t0.y) + 30 * (t1.m - t0.m) + (d1 - d0)

\* C11: dcf::_30_360(t0, t1) is (360*(y1-y0) + 30*(m1-m0) + (d1'-d0'))/360
\* years with the differences signed: the unsigned subtraction of the months
\* and of the days leaves no wrap-around in the result.
C11_Signed30_360 ==
    DcfDone => fnResult.fwd.d30_360 = Years(Days30_360(fnArgs.t0, fnArgs.t1), 360)

\* C11, witness: _30_360 has been applied to dates whose month and day both
\* decrease from t0 to t1 (both unsigned differences wrap), in a later year.
C11_Witness ==
    /\ DcfDone
    /\ fnArgs.t1.m < fnArgs.t0.m /\ fnArgs.t1.d < fnArgs.t0.d
    /\ fnArgs.t1.y > fnArgs.t0.y
    /\ fnResult.fwd.d30_360.num > 0

\* The fraction is 1.
IsOneYear(x) == x.num = x.den

\* One calendar year apart on the same month and day.
OneYearApart(t0, t1) == t1.y = t0.y + 1 /\ t1.m = t0.m /\ t1.d = t0.d

\* C12: for two dates with the same month and day one calendar year apart,
\* _years, _30_360, _actual_360 and _actual_365 all return exactly 1 year.
C12_OneYearIsOne ==
    (DcfDone /\ OneYearApart(fnArgs.t0, fnArgs.t1)) =>
        /\ IsOneYear(fnResult.fwd.years)
        /\ IsOneYear(fnResult.fwd.d30_360)
        /\ IsOneYear(fnResult.fwd.actual_360)
        /\ IsOneYear(fnResult.fwd.actual_365)

\* -x, and x + y for two results of one convention, on values of type `years`
YearsNeg(x) == [num |-> -x.num, den |-> x.den]
YearsPlus(x, y) == [num |-> x.num + y.num, den |-> x.den]

\* One of the two days is the 31st and the other is before the 30th.
Day31AgainstShort(t0, t1) ==
    \/ t0.d = 31 /\ t1.d < 30
    \/ t1.d = 31 /\ t0.d < 30

\* C13, as the spec states it: each of _years, _30_360, _actual_360 and
\* _actual_365 is antisymmetric, dcf(t0, t1) = -dcf(t1, t0), days 29, 30 and
\* 31 included.
C13_Antisymmetric ==
    DcfDone =>
        /\ fnResult.fwd.years = YearsNeg(fnResult.rev.years)
        /\ fnResult.fwd.d30_360 = YearsNeg(fnResult.rev.d30_360)
        /\ fnResult.fwd.actual_360 = YearsNeg(fnResult.rev.actual_360)
        /\ fnResult.fwd.actual_365 = YearsNeg(fnResult.rev.actual_365)

\* C13, amended: _years, _actual_360 and _actual_365 are antisymmetric for all
\* dates; _30_360 is antisymmetric except when one day is the 31st and the
\* other is before the 30th, where the day counts of the two directions sum
\* to 1: dcf(t0, t1) is n/360 and dcf(t1, t0) is (1 - n)/360.
C13_AntisymmetricBut31 ==
    DcfDone =>
        /\ fnResult.fwd.years = YearsNeg(fnResult.rev.years)
        /\ fnResult.fwd.actual_360 = YearsNeg(fnResult.rev.actual_360)
        /\ fnResult.fwd.actual_365 = YearsNeg(fnResult.rev.actual_365)
        /\ IF Day31AgainstShort(fnArgs.t0, fnArgs.t1)
           THEN YearsPlus(fnResult.fwd.d30_360, fnResult.rev.d30_360) = Years(1, 360)
           ELSE fnResult.fwd.d30_360 = YearsNeg(fnResult.rev.d30_360)

\* C13, witness: the conventions have been applied both ways to a 31st and a
\* 29th of different months, the 31st being the later date.
C13_Witness ==
    /\ DcfDone
    /\ fnArgs.t1.d = 31 /\ fnArgs.t0.d = 29
    /\ fnArgs.t0.m # fnArgs.t1.m
    /\ fnResult.fwd.years.num > 0
    /\ fnResult.rev.d30_360.num < 0

(***************************************************************************)
(* Differences and construction of dates: C14, C15.                        *)
(***************************************************************************)

MinusDone == machine = "minus_years" /\ fnPc = "done"

\* C14: for all dates d0 and d1, with dt = d0 - d1 the difference in years,
\* d1 + dt == d0 and d0 - dt == d1.
C14_DifferenceAddsBack ==
    MinusDone => (fnResult.plus /\ fnResult.minus)

IsMake == machine = "make_ymd"
\* The call of make_ymd / make_days is over: it returned ("done") or it
\* failed with an error ("failed").
MakeOver == IsMake /\ fnPc # "call"

\* The fields passed are not a calendar date.
InvalidFields(a) ==
    \/ a.m < 1 \/ a.m > 12
    \/ a.d < 1 \/ a.d > last_day_of_month(a.y, a.m)

\* C15: make_ymd / make_days fail with an invalid-date
\* error when the month is outside 1..12 or the day outside 1..days in the
\* month; no date value is returned for such fields.
C15_InvalidFieldsFail ==
    (MakeOver /\ InvalidFields(fnArgs)) => fnPc = "failed"

(***************************************************************************)
(* Schedules: C16, C17, C20.                                               *)
(***************************************************************************)

\* C16: for effective < termination and a positive period, each date read
\* after the first is exactly one period after the date read before it, and
\* later than it: one month step for `periodic`; for `periodic_iterable` the
\* day of the time point one duration after the time point read before.
C16_OnePeriodApart ==
    [][(Forward /\ pc = "ready" /\ lastOp' = "next" /\ lastYielded # NoDate) =>
        IF IsPeriodic
        THEN /\ lastYielded' = ymd_plus_months(lastYielded, period)
             /\ ymd_less(lastYielded, lastYielded')
        ELSE /\ lastYielded = floor_days(current - period)
             /\ lastYielded' = floor_days(current)
             /\ sys_days(lastYielded) < sys_days(lastYielded')]_vars

\* C16, witness: a traversal of `periodic` has read at least two dates, the
\* last of them termination.
C16_Witness ==
    /\ IsPeriodic /\ Forward /\ Exhausted
    /\ lastOp = "next"
    /\ firstYielded # NoDate
    /\ firstYielded # lastYielded
    /\ lastYielded = termination

\* C17: begin(), called after any number of ++ steps, returns an iterator at
\* the first date of the schedule, equal to the newly constructed schedule, in
\* `periodic` and in `periodic_iterable`.
C17_BeginRestarts ==
    (IsSchedule /\ lastOp = "begin" /\ pc = "ready" /\ constructed # <<>>) =>
        constructed = <<current>>

\* C20: once a schedule iterator is exhausted, a further ++ leaves effective,
\* termination, the period and current as they are, and the iterator stays
\* exhausted.
C20_ExhaustionAbsorbing ==
    [][(Exhausted /\ lastOp' = "past") =>
        (UNCHANGED <<effective, termination, period, current>> /\ Exhausted')]_vars

\* C20, witness: ++ has been applied to an iterator that a whole traversal
\* had exhausted.
C20_Witness ==
    /\ Forward /\ Exhausted
    /\ lastOp = "past"
    /\ lastYielded = TerminationDate

(***************************************************************************)
(* adjust: C18, C19.                                                       *)
(***************************************************************************)

\* The days from the input of the outermost call to its result, counted in
\* the direction of the roll.
RollDirection == IF adjConv0 = "following" THEN 1 ELSE -1
RollDistance == (sys_days(adjResult) - sys_days(adjDate0)) * RollDirection

\* C18: following returns the earliest business day on or after the input,
\* previous the latest business day on or before it: the result is not
\* flagged by the calendar, it lies on that side of the input, and the input
\* and every date between the input and the result are flagged.
C18_NearestInDirection ==
    (AdjustDone /\ adjConv0 \in {"following", "previous"}) =>
        /\ RollDistance >= 0
        /\ ~cal(adjCal, adjResult)
        /\ \A k \in 0..(RollDistance - 1) :
               cal(adjCal, ymd_plus_days(adjDate0, RollDirection * k))

\* C18, witness: following has returned the day two days after its input (a
\* Saturday rolled to the Monday).
C18_Witness ==
    /\ AdjustDone /\ adjRound = 1
    /\ adjConv0 = "following"
    /\ RollDistance = 2
    /\ ~cal(adjCal, adjResult)

\* (year, month) of a is after (year, month) of b
LaterMonth(a, b) == a.y > b.y \/ (a.y = b.y /\ a.m > b.m)

\* C19: modified_following never returns a date in a later month than its
\* input; under calendars::weekday, modified_following and modified_previous
\* return a date in the year and month of the input.
C19_StaysInMonth ==
    /\ (AdjustDone /\ adjConv0 = "modified_following") =>
           ~LaterMonth(adjResult, adjDate0)
    /\ (AdjustDone /\ adjCal = "weekday"
           /\ adjConv0 \in {"modified_following", "modified_previous"}) =>
           (adjResult.y = adjDate0.y /\ adjResult.m = adjDate0.m)

\* C19, witness: modified_following of part_002 has returned, under
\* calendars::weekday, for a date whose following business day is in the next
\* month.
C19_Witness ==
    /\ AdjustDone /\ adjRound = 1
    /\ adjVersion = "part_002"
    /\ adjCal = "weekday"
    /\ adjConv0 = "modified_following"
    /\ cal(adjCal, adjDate0)
    /\ LaterMonth(FollowingOf(adjCal, adjDate0), adjDate0)
    /\ adjResult = PreviousOf(adjCal, adjDate0)

====
